---- MODULE Spec2Model ----
(***************************************************************************)
(* A model of md_automation.py: the configuration phase of main() (the     *)
(* prompts, the generation and propagation of the per-stage equilibration  *)
(* files, the edit sessions) followed by the engine pipeline               *)
(* (minimization, equilibration 1..steps, production).                     *)
(*                                                                         *)
(* A file is a sequence of lines, a line is a string. The file system is a *)
(* function from the names of the files that exist to their lines.         *)
(***************************************************************************)
EXTENDS Integers, Sequences, FiniteSets, TLC

\* ------------------------------------------------------------------------
\* Program constants
\* ------------------------------------------------------------------------

MAX_EQ_STEPS == 5

\* a schedule whose third stage keeps the backbone force of the second
ScheduleWithPlateau == << <<400, 40>>, <<300, 30>>, <<300, 20>>, <<100, 10>>, <<50, 5>> >>

POSRES_SCHEDULE == << <<400, 40>>, <<300, 30>>, <<200, 20>>, <<100, 10>>, <<50, 5>> >>

\* the minimum width of the key in a rewritten line, f"{key:<25} = ..."
KeyWidth == 25

\* ------------------------------------------------------------------------
\* Bounds of the model
\* ------------------------------------------------------------------------

\* the largest stage count the user types at "How many?"
MaxRequest == 6

\* the number of rewrites the user makes over all edit sessions of a run
MaxEdits == 1

\* the number of rewrites of the edit session checked on its own (SpecEdit)
MaxSessionEdits == 2

\* ------------------------------------------------------------------------
\* Strings, as Python computes them
\* ------------------------------------------------------------------------

CharAt(s, n) == SubSeq(s, n, n)

IsSpace(c) == c \in {" ", "\t", "\n", "\r"}

RECURSIVE LStrip(_)
LStrip(s) ==
    IF Len(s) > 0 /\ IsSpace(CharAt(s, 1)) THEN LStrip(SubSeq(s, 2, Len(s))) ELSE s

RECURSIVE RStrip(_)
RStrip(s) ==
    IF Len(s) > 0 /\ IsSpace(CharAt(s, Len(s))) THEN RStrip(SubSeq(s, 1, Len(s) - 1)) ELSE s

\* str.strip()
Strip(s) == RStrip(LStrip(s))

\* str.startswith(p)
StartsWith(s, p) == Len(p) <= Len(s) /\ SubSeq(s, 1, Len(p)) = p

\* "=" in line
HasEq(s) == \E n \in 1..Len(s) : CharAt(s, n) = "="

FirstEq(s) == CHOOSE n \in 1..Len(s) :
                 CharAt(s, n) = "=" /\ \A m \in 1..(n - 1) : CharAt(s, m) # "="

\* line.split("=")[0]
BeforeEq(s) == SubSeq(s, 1, FirstEq(s) - 1)

RECURSIVE Spaces(_)
Spaces(n) == IF n <= 0 THEN "" ELSE " " \o Spaces(n - 1)

\* f"{s:<w}"
PadRight(s, w) == IF Len(s) >= w THEN s ELSE s \o Spaces(w - Len(s))

Digit(d) == CharAt("0123456789", d + 1)

\* f"{n}" of a natural number
RECURSIVE IntStr(_)
IntStr(n) == IF n < 10 THEN Digit(n) ELSE IntStr(n \div 10) \o Digit(n % 10)

\* ------------------------------------------------------------------------
\* read_mdp
\* ------------------------------------------------------------------------

\* the test of read_mdp for a line that is indexed as a parameter
IsParamLine(line) == HasEq(line) /\ ~StartsWith(Strip(line), ";")

\* key = line.split("=")[0].strip()
KeyOf(line) == Strip(BeforeEq(line))

ParamKeys(lines) == {KeyOf(lines[n]) : n \in {m \in 1..Len(lines) : IsParamLine(lines[m])}}

\* params[key] = line, a later line of the same key overwriting an earlier one
ReadParams(lines) ==
    [k \in ParamKeys(lines) |->
        LET idx == {m \in 1..Len(lines) : IsParamLine(lines[m]) /\ KeyOf(lines[m]) = k}
            last == CHOOSE m \in idx : \A o \in idx : o <= m
        IN lines[last]]

\* ------------------------------------------------------------------------
\* The restraint directive
\* ------------------------------------------------------------------------

\* line.strip().startswith("define")
IsDefineLine(line) == StartsWith(Strip(line), "define")

\* a directive without the force constants of the stage
FormatDefineNoSchedule(pair) == "define                  = -DPOSRES\n"

\* f"define                  = -DPOSRES -DPOSRES_FC_BB={bb} -DPOSRES_FC_SC={sc}\n"
FormatDefine(pair) ==
    "define                  = -DPOSRES -DPOSRES_FC_BB=" \o IntStr(pair[1])
        \o " -DPOSRES_FC_SC=" \o IntStr(pair[2]) \o "\n"

\* POSRES_SCHEDULE[idx], idx counted from 0; a negative idx counts from the end
\* and an idx outside the list raises IndexError
ScheduleIndexOk(idx) == idx \in (0 - Len(POSRES_SCHEDULE))..(Len(POSRES_SCHEDULE) - 1)

ScheduleAt(idx) ==
    IF idx >= 0 THEN POSRES_SCHEDULE[idx + 1] ELSE POSRES_SCHEDULE[Len(POSRES_SCHEDULE) + idx + 1]

\* a derivation that copies every line, the restraint directive included
SubstituteKeepDefine(lines, pair) == lines

\* the loop "for line in base_lines: if line.strip().startswith("define"): ..."
SubstituteDefine(lines, pair) ==
    [n \in 1..Len(lines) |->
        IF IsDefineLine(lines[n]) THEN FormatDefine(pair) ELSE lines[n]]

\* f"step4.1.{i}_equilibration.mdp"
StageFile(n) == "step4.1." \o IntStr(n) \o "_equilibration.mdp"

\* no clamp of the stage count
ClampNone(n) == n

\* steps = min(steps, MAX_EQ_STEPS)
Clamp(n) == IF n < MAX_EQ_STEPS THEN n ELSE MAX_EQ_STEPS


\* ------------------------------------------------------------------------
\* The files of a run
\* ------------------------------------------------------------------------

\* the three names typed at the first prompts of main()
MinMdp == "em.mdp"
EqMdp == "eq.mdp"
ProdMdp == "md.mdp"

\* equilibration templates the user may supply
Templates ==
    { << "title = test\n", "define = -DPOSRES\n", "dt = 0.002\n" >>,
      << "; define = -DFLEXIBLE\n", "  define = -DPOSRES -DPOSRES_FC_BB=400.0 -DPOSRES_FC_SC=40.0\n",
         "\n", "nsteps = 125000" >>,
      << "dt = 0.001\n", "nsteps = 5\n" >> }

MinLines == << "integrator = steep\n", "nsteps = 5000\n" >>
ProdLines == << "dt = 0.002\n" >>

\* stage files left in the directory by an earlier run
StaleFiles ==
    [f \in {StageFile(1), StageFile(2)} |-> << "define = -DPOSRES -DSTALE\n", "dt = 0.004\n" >>]

\* what the user may type
Answers == {"y", "n"}
Requests == (0 - 1)..MaxRequest
EditValues == {"10"}
ReturnCodes == {0, 1}

\* the file system fsNow with file name (re)written
Put(fsNow, name, lines) ==
    [f \in DOMAIN fsNow \cup {name} |-> IF f = name THEN lines ELSE fsNow[f]]

\* ------------------------------------------------------------------------
\* State
\* ------------------------------------------------------------------------

VARIABLES
    pc,             \* the position of main()
    fs,             \* the files that exist, with their lines
    mode,           \* the edit mode taken: unset, single, multi, uniform, perstage
    requested,      \* the stage count typed by the user (multi-stage only)
    steps,          \* the variable steps of main()
    ed,             \* the locals of the running edit_mdp call
    i,              \* the loop variable of the per-stage loop of main()
    prev_template,  \* main()'s prev_template
    new_lines,      \* main()'s new_lines (the lines just derived for stage i)
    eq_i,           \* the loop variable of run_equilibration
    prev_gro,       \* run_equilibration's prev_gro, then main()'s final_gro
    calls,          \* history: the engine invocations issued, with their results
    lookups,        \* history: the indices at which POSRES_SCHEDULE was read
    writes,         \* history: the stage files written by generation, copy and propagation
    out,            \* history: what main(), prepare_equilibration_files and run_cmd printed
    passes,         \* history: the stages announced by "Editing equilibration step"
    earlyAt,        \* history: the stage at which "same for remaining" was chosen, or 0
    edits           \* the number of rewrites made so far

vars == << pc, fs, mode, requested, steps, ed, i, prev_template, new_lines, eq_i,
           prev_gro, calls, lookups, writes, out, passes, earlyAt, edits >>

\* no edit_mdp call is running. History of the session: missed, an unknown key was typed;
\* n, the number of rewrites made; key and val, the last key and value typed for a rewrite
NoEdit == [file |-> "", params |-> << >>, lines |-> << >>, ret |-> "", missed |-> FALSE,
           n |-> 0, key |-> "", val |-> ""]

Init ==
    /\ pc = "ask_edit_min"
    /\ \E template \in Templates, missing \in {"none", MinMdp, EqMdp, ProdMdp}, stale \in BOOLEAN :
          LET named == [f \in {MinMdp, EqMdp, ProdMdp} \ {missing} |->
                            IF f = MinMdp THEN MinLines
                            ELSE IF f = EqMdp THEN template ELSE ProdLines]
          IN fs = IF stale
                  THEN [f \in DOMAIN named \cup DOMAIN StaleFiles |->
                            IF f \in DOMAIN named THEN named[f] ELSE StaleFiles[f]]
                  ELSE named
    /\ mode = "unset"
    /\ requested = 0
    /\ steps = 0
    /\ ed = NoEdit
    /\ i = 0
    /\ prev_template = ""
    /\ new_lines = << >>
    /\ eq_i = 0
    /\ prev_gro = ""
    /\ calls = << >>
    /\ lookups = {}
    /\ writes = << >>
    /\ out = << >>
    /\ passes = {}
    /\ earlyAt = 0
    /\ edits = 0


\* ------------------------------------------------------------------------
\* edit_mdp
\* ------------------------------------------------------------------------

\* the keys the user may type at "Parameter to edit"
EditKeys == {"title", "define", "dt", "nsteps", "integrator", "bogus", "", "dtx", "rvdw", "rvdw_switch"}

\* key.lower() == "no"
IsNo(key) == key \in {"no", "No", "nO", "NO"}

\* current_val = line.split("=", 1)[1].strip(), the value listed to the user
ValueOf(line) == Strip(SubSeq(line, FirstEq(line) + 1, Len(line)))

\* new_line = f"{key:<25} = {new_val}\n"
NewLine(key, val) == PadRight(key, KeyWidth) \o " = " \o val \o "\n"

\* the loop "for i, line in enumerate(lines): if line.strip().startswith(key): ... break"
RewriteFirst(lines, key, new_line) ==
    LET hits == {n \in 1..Len(lines) : StartsWith(Strip(lines[n]), key)}
    IN IF hits = {} THEN lines
       ELSE LET first == CHOOSE n \in hits : \A m \in hits : n <= m
            IN [lines EXCEPT ![first] = new_line]

\* the call edit_mdp(file) up to its first prompt: read_mdp raises when the file is missing
BeginEdit(fsNow, file, ret) ==
    IF file \in DOMAIN fsNow
    THEN /\ pc' = "editing"
         /\ ed' = [file |-> file, params |-> ReadParams(fsNow[file]), lines |-> fsNow[file],
                   ret |-> ret, missed |-> FALSE, n |-> 0, key |-> "", val |-> ""]
    ELSE /\ pc' = "crashed"
         /\ ed' = NoEdit

\* a key of the file and a new value are typed: the first line starting with the key is
\* replaced; limit bounds the number of rewrites of a run
EditRewriteUpTo(limit) ==
    /\ pc = "editing"
    /\ edits < limit
    /\ \E key \in EditKeys, val \in EditValues :
          /\ ~IsNo(key)
          /\ key \in DOMAIN ed.params
          /\ ed' = [ed EXCEPT !.lines = RewriteFirst(ed.lines, key, NewLine(key, val)),
                              !.n = ed.n + 1, !.key = key, !.val = val]
    /\ edits' = edits + 1
    /\ UNCHANGED << pc, fs, mode, requested, steps, i, prev_template, new_lines, eq_i,
                    prev_gro, calls, lookups, writes, out, passes, earlyAt >>

EditRewrite == EditRewriteUpTo(MaxEdits)

\* an unknown key treated as an error that ends the run
EditNotFoundAborts ==
    /\ pc = "editing"
    /\ \E key \in EditKeys :
          /\ ~IsNo(key)
          /\ key \notin DOMAIN ed.params
    /\ ed' = [ed EXCEPT !.missed = TRUE]
    /\ pc' = "crashed"
    /\ UNCHANGED << fs, mode, requested, steps, i, prev_template, new_lines, eq_i,
                    prev_gro, calls, lookups, writes, out, passes, earlyAt, edits >>

\* a key that is not in params is typed: "Parameter not found.", and the prompt again
EditNotFound ==
    /\ pc = "editing"
    /\ \E key \in EditKeys :
          /\ ~IsNo(key)
          /\ key \notin DOMAIN ed.params
    /\ ed' = [ed EXCEPT !.missed = TRUE]
    /\ UNCHANGED << pc, fs, mode, requested, steps, i, prev_template, new_lines, eq_i,
                    prev_gro, calls, lookups, writes, out, passes, earlyAt, edits >>

\* a save of the lines of the indexed parameters only
SavedLinesOfParams(e) ==
    SelectSeq(e.lines, LAMBDA line : IsParamLine(line) /\ e.params[KeyOf(line)] = line)

\* what edit_mdp hands to write_mdp: write_mdp(filepath, lines)
SavedLines(e) == e.lines

\* "no" is typed: write_mdp(filepath, lines) and return to the caller
EditDone ==
    /\ pc = "editing"
    /\ fs' = Put(fs, ed.file, SavedLines(ed))
    /\ pc' = ed.ret
    /\ ed' = NoEdit
    /\ UNCHANGED << mode, requested, steps, i, prev_template, new_lines, eq_i,
                    prev_gro, calls, lookups, writes, out, passes, earlyAt, edits >>

\* ------------------------------------------------------------------------
\* Generation and propagation of the stage files
\* ------------------------------------------------------------------------

Min2(a, b) == IF a < b THEN a ELSE b

\* fsNow with the files of stages from..to written: the lines with the restraint
\* directive of each stage substituted
WriteStages(fsNow, lines, from, to) ==
    LET names == {StageFile(n) : n \in from..to}
        stageOf(f) == CHOOSE n \in from..to : StageFile(n) = f
    IN [f \in DOMAIN fsNow \cup names |->
            IF f \in names THEN SubstituteDefine(lines, ScheduleAt(stageOf(f) - 1))
            ELSE fsNow[f]]

\* the entries of the write history for the stages from..to of fsNew
WriteLog(fsNew, from, to, by) ==
    [n \in 1..(IF to >= from THEN to - from + 1 ELSE 0) |->
        [stage |-> from + n - 1, lines |-> fsNew[StageFile(from + n - 1)], by |-> by]]

\* the messages printed for the stages from..to
PrintLog(msg, from, to) ==
    [n \in 1..(IF to >= from THEN to - from + 1 ELSE 0) |-> [msg |-> msg, n |-> from + n - 1]]

\* prepare_equilibration_files: "for i in range(steps)" reads POSRES_SCHEDULE[i] and
\* raises IndexError at the first i past the list, after writing the files before it
PrepareRaises(n) == \E idx \in 0..(n - 1) : ~ScheduleIndexOk(idx)
PrepareCount(n) == IF n <= 0 THEN 0 ELSE Min2(n, Len(POSRES_SCHEDULE))
PrepareLookups(n) == {idx \in 0..(n - 1) : idx <= Len(POSRES_SCHEDULE)}

PrepareFiles(fsNow, base_mdp, n) == WriteStages(fsNow, fsNow[base_mdp], 1, PrepareCount(n))

\* a propagation that starts one stage late
RemainingFromSkip(n) == n + 2

\* "for j in range(i + 1, steps + 1)": the first stage the settings are propagated to
RemainingFrom(n) == n + 1

\* a propagation from the template instead of stage 1's edited file
UniformBaseTemplate(fsNow) == fsNow[EqMdp]

\* base_params, base_lines = read_mdp("step4.1.1_equilibration.mdp")
UniformBase(fsNow) == fsNow[StageFile(1)]

\* the stages range(from, steps + 1) reads the schedule for
LoopLookups(from, to) == {n - 1 : n \in from..to}

\* ------------------------------------------------------------------------
\* main(): the configuration phase
\* ------------------------------------------------------------------------

\* "Edit minimization MDP? (y/n)"
AskEditMin ==
    /\ pc = "ask_edit_min"
    /\ \E ans \in Answers :
          IF ans = "y" THEN BeginEdit(fs, MinMdp, "ask_multi")
          ELSE pc' = "ask_multi" /\ ed' = ed
    /\ UNCHANGED << fs, mode, requested, steps, i, prev_template, new_lines, eq_i,
                    prev_gro, calls, lookups, writes, out, passes, earlyAt, edits >>

\* "Multiple equilibration runs? (y/n)"; the else branch copies the template to stage 1
AskMulti ==
    /\ pc = "ask_multi"
    /\ \E ans \in Answers :
          IF ans = "y"
          THEN /\ pc' = "ask_count"
               /\ UNCHANGED << fs, mode, steps, writes >>
          ELSE /\ steps' = 1
               /\ mode' = "single"
               /\ IF EqMdp \in DOMAIN fs
                  THEN /\ fs' = Put(fs, StageFile(1), fs[EqMdp])
                       /\ writes' = Append(writes, [stage |-> 1, lines |-> fs[EqMdp], by |-> "copy"])
                       /\ pc' = "ask_edit_eq"
                  ELSE /\ pc' = "crashed"
                       /\ UNCHANGED << fs, writes >>
    /\ UNCHANGED << requested, ed, i, prev_template, new_lines, eq_i,
                    prev_gro, calls, lookups, out, passes, earlyAt, edits >>

\* "How many?", the clamp, prepare_equilibration_files and the call of edit_mdp for stage 1
AskCount ==
    /\ pc = "ask_count"
    /\ \E n \in Requests :
          /\ requested' = n
          /\ steps' = Clamp(n)
          /\ mode' = "multi"
          /\ IF EqMdp \notin DOMAIN fs
             THEN /\ pc' = "crashed"
                  /\ UNCHANGED << fs, ed, lookups, writes, out >>
             ELSE /\ fs' = PrepareFiles(fs, EqMdp, steps')
                  /\ lookups' = lookups \cup PrepareLookups(steps')
                  /\ writes' = writes \o WriteLog(fs', 1, PrepareCount(steps'), "generate")
                  /\ out' = out \o PrintLog("Created", 1, PrepareCount(steps'))
                  /\ IF PrepareRaises(steps')
                     THEN pc' = "crashed" /\ ed' = ed
                     ELSE BeginEdit(fs', StageFile(1), "ask_same_all")
    /\ UNCHANGED << i, prev_template, new_lines, eq_i, prev_gro, calls, passes, earlyAt, edits >>

\* one iteration of "for i in range(2, steps + 1)" up to the prompts of its edit_mdp
StartPass(n, template) ==
    IF n > steps
    THEN /\ pc' = "ask_edit_prod"
         /\ UNCHANGED << ed, lookups, passes, out >>
    ELSE /\ lookups' = lookups \cup {n - 1}
         /\ IF ScheduleIndexOk(n - 1)
            THEN /\ passes' = passes \cup {n}
                 /\ out' = Append(out, [msg |-> "Editing equilibration step", n |-> n])
                 /\ BeginEdit(fs, template, "derive")
            ELSE /\ pc' = "crashed"
                 /\ UNCHANGED << ed, passes, out >>

\* "Use same parameters for remaining equilibration steps? (y/n)"
AskSameForAll ==
    /\ pc = "ask_same_all"
    /\ \E ans \in Answers :
          IF ans = "y"
          THEN /\ mode' = "uniform"
               /\ fs' = WriteStages(fs, UniformBase(fs), 2, steps)
               /\ lookups' = lookups \cup LoopLookups(2, steps)
               /\ writes' = writes \o WriteLog(fs', 2, steps, "uniform")
               /\ out' = out \o PrintLog("Updated with same settings", 2, steps)
               /\ pc' = "ask_edit_prod"
               /\ UNCHANGED << ed, i, prev_template, passes >>
          ELSE /\ mode' = "perstage"
               /\ prev_template' = StageFile(1)
               /\ i' = 2
               /\ StartPass(2, StageFile(1))
               /\ UNCHANGED << fs, writes >>
    /\ UNCHANGED << requested, steps, new_lines, eq_i, prev_gro, calls, earlyAt, edits >>

\* after the edit pass of stage i: the previous stage's file is read, stage i's file derived
DeriveStage ==
    /\ pc = "derive"
    /\ new_lines' = SubstituteDefine(fs[prev_template], ScheduleAt(i - 1))
    /\ fs' = Put(fs, StageFile(i), new_lines')
    /\ writes' = Append(writes, [stage |-> i, lines |-> new_lines', by |-> "perstage"])
    /\ pc' = "ask_same_rest"
    /\ UNCHANGED << mode, requested, steps, ed, i, prev_template, eq_i,
                    prev_gro, calls, lookups, out, passes, earlyAt, edits >>

\* "Use these settings for remaining steps after i? (y/n)"
AskSameForRest ==
    /\ pc = "ask_same_rest"
    /\ \E ans \in Answers :
          IF ans = "y"
          THEN /\ fs' = WriteStages(fs, new_lines, RemainingFrom(i), steps)
               /\ lookups' = lookups \cup LoopLookups(RemainingFrom(i), steps)
               /\ writes' = writes \o WriteLog(fs', RemainingFrom(i), steps, "remaining")
               /\ out' = out \o PrintLog("Updated", RemainingFrom(i), steps)
               /\ earlyAt' = i
               /\ pc' = "ask_edit_prod"
               /\ UNCHANGED << ed, i, prev_template, passes >>
          ELSE /\ prev_template' = StageFile(i)
               /\ i' = i + 1
               /\ StartPass(i + 1, StageFile(i))
               /\ UNCHANGED << fs, writes, earlyAt >>
    /\ UNCHANGED << mode, requested, steps, new_lines, eq_i, prev_gro, calls, edits >>

\* "Edit equilibration MDP? (y/n)" of the single-stage branch
AskEditEq ==
    /\ pc = "ask_edit_eq"
    /\ \E ans \in Answers :
          IF ans = "y" THEN BeginEdit(fs, StageFile(1), "ask_edit_prod")
          ELSE pc' = "ask_edit_prod" /\ ed' = ed
    /\ UNCHANGED << fs, mode, requested, steps, i, prev_template, new_lines, eq_i,
                    prev_gro, calls, lookups, writes, out, passes, earlyAt, edits >>

\* "Edit production MDP? (y/n)"
AskEditProd ==
    /\ pc = "ask_edit_prod"
    /\ \E ans \in Answers :
          IF ans = "y" THEN BeginEdit(fs, ProdMdp, "start")
          ELSE pc' = "start" /\ ed' = ed
    /\ UNCHANGED << fs, mode, requested, steps, i, prev_template, new_lines, eq_i,
                    prev_gro, calls, lookups, writes, out, passes, earlyAt, edits >>

\* "--- STARTING SIMULATION PIPELINE ---"
StartPipeline ==
    /\ pc = "start"
    /\ out' = Append(out, [msg |-> "STARTING SIMULATION PIPELINE", n |-> 0])
    /\ pc' = "min_grompp"
    /\ UNCHANGED << fs, mode, requested, steps, ed, i, prev_template, new_lines, eq_i,
                    prev_gro, calls, lookups, writes, passes, earlyAt, edits >>


\* ------------------------------------------------------------------------
\* The engine pipeline
\* ------------------------------------------------------------------------

NoArg == ""

\* ["gmx", "grompp", "-f", f, "-o", o, "-c", c, "-r", r, ...] and its return code
Grompp(f, o, c, r, rc) ==
    [tool |-> "grompp", f |-> f, o |-> o, c |-> c, r |-> r, acc |-> NoArg, rc |-> rc]

\* ["gmx", "mdrun", "-v", "-deffnm", deffnm, ...] and its return code
Mdrun(deffnm, acc, rc) ==
    [tool |-> "mdrun", f |-> NoArg, o |-> deffnm, c |-> NoArg, r |-> NoArg, acc |-> acc, rc |-> rc]

\* a run_cmd that does not look at the return code
RunCmdIgnoringStatus(rc, next) == next

\* run_cmd: a non-zero return code ends the process, exit(1)
RunCmd(rc, next) == IF rc # 0 THEN "failed" ELSE next

\* result.returncode of a gmx grompp: the engine cannot succeed on a parameter file
\* that does not exist
GromppCodes(fsNow, mdp) == IF mdp \in DOMAIN fsNow THEN ReturnCodes ELSE ReturnCodes \ {0}

\* what run_cmd prints when the command failed
FailureLog(rc) == IF rc # 0 THEN << [msg |-> "Command failed. Exiting.", n |-> 0] >> ELSE << >>

MinGromppArgs(mdp, rc) == Grompp(mdp, "minimization.tpr", "step3_input.gro", "step3_input.gro", rc)

EqPrefix(n) == "equilibration" \o IntStr(n)

\* an equilibration grompp whose -r follows the structural input
EqGromppArgsEvolvingRef(n, gro, rc) == Grompp(StageFile(n), EqPrefix(n) \o ".tpr", gro, gro, rc)

EqGromppArgs(n, gro, rc) ==
    Grompp(StageFile(n), EqPrefix(n) \o ".tpr", gro, "step3_input.gro", rc)

ProdGromppArgs(mdp, gro, rc) == Grompp(mdp, "production.tpr", gro, NoArg, rc)

\* a loop that forgets to advance prev_gro
EqNextGroStale(n, gro) == gro

\* prev_gro = f"{prefix}.gro"
EqNextGro(n, gro) == EqPrefix(n) \o ".gro"

\* a loop over range(1, steps), one stage short
EqLoopSkip(n, last) == IF n + 1 < last THEN "eq_grompp" ELSE "prod_grompp"

\* "for i in range(1, steps + 1)": stage n + 1 follows stage n up to the last one
EqLoop(n, last) == IF n + 1 <= last THEN "eq_grompp" ELSE "prod_grompp"

\* run_minimization: gmx grompp
MinGrompp ==
    /\ pc = "min_grompp"
    /\ \E rc \in GromppCodes(fs, MinMdp) :
          /\ calls' = Append(calls, MinGromppArgs(MinMdp, rc))
          /\ pc' = RunCmd(rc, "min_mdrun")
          /\ out' = out \o FailureLog(rc)
    /\ UNCHANGED << fs, mode, requested, steps, ed, i, prev_template, new_lines, eq_i,
                    prev_gro, lookups, writes, passes, earlyAt, edits >>

\* run_minimization: gmx mdrun, then the entry of run_equilibration
MinMdrun ==
    /\ pc = "min_mdrun"
    /\ \E rc \in ReturnCodes :
          /\ calls' = Append(calls, Mdrun("minimization", NoArg, rc))
          /\ pc' = RunCmd(rc, EqLoop(0, steps))
          /\ out' = out \o FailureLog(rc)
          /\ IF rc = 0
             THEN prev_gro' = "minimization.gro" /\ eq_i' = 1
             ELSE UNCHANGED << prev_gro, eq_i >>
    /\ UNCHANGED << fs, mode, requested, steps, ed, i, prev_template, new_lines,
                    lookups, writes, passes, earlyAt, edits >>

\* a scheduler that would derive the stage file only when the stage is about to run
EqGromppDeriving ==
    /\ pc = "eq_grompp"
    /\ \E rc \in GromppCodes(fs, StageFile(eq_i)) :
          /\ calls' = Append(calls, EqGromppArgs(eq_i, prev_gro, rc))
          /\ pc' = RunCmd(rc, "eq_mdrun")
          /\ out' = out \o FailureLog(rc)
    /\ fs' = IF StageFile(eq_i) \in DOMAIN fs
             THEN Put(fs, StageFile(eq_i), SubstituteDefine(fs[StageFile(eq_i)], ScheduleAt(eq_i - 1)))
             ELSE fs
    /\ UNCHANGED << mode, requested, steps, ed, i, prev_template, new_lines, eq_i,
                    prev_gro, lookups, writes, passes, earlyAt, edits >>

\* run_equilibration: gmx grompp of stage eq_i
EqGrompp ==
    /\ pc = "eq_grompp"
    /\ \E rc \in GromppCodes(fs, StageFile(eq_i)) :
          /\ calls' = Append(calls, EqGromppArgs(eq_i, prev_gro, rc))
          /\ pc' = RunCmd(rc, "eq_mdrun")
          /\ out' = out \o FailureLog(rc)
    /\ UNCHANGED << fs, mode, requested, steps, ed, i, prev_template, new_lines, eq_i,
                    prev_gro, lookups, writes, passes, earlyAt, edits >>

\* run_equilibration: gmx mdrun of stage eq_i, then the next stage or run_production
EqMdrun ==
    /\ pc = "eq_mdrun"
    /\ \E rc \in ReturnCodes :
          /\ calls' = Append(calls, Mdrun(EqPrefix(eq_i), "-nb gpu", rc))
          /\ pc' = RunCmd(rc, EqLoop(eq_i, steps))
          /\ out' = out \o FailureLog(rc)
          /\ IF rc = 0
             THEN prev_gro' = EqNextGro(eq_i, prev_gro) /\ eq_i' = eq_i + 1
             ELSE UNCHANGED << prev_gro, eq_i >>
    /\ UNCHANGED << fs, mode, requested, steps, ed, i, prev_template, new_lines,
                    lookups, writes, passes, earlyAt, edits >>

\* run_production: gmx grompp
ProdGrompp ==
    /\ pc = "prod_grompp"
    /\ \E rc \in GromppCodes(fs, ProdMdp) :
          /\ calls' = Append(calls, ProdGromppArgs(ProdMdp, prev_gro, rc))
          /\ pc' = RunCmd(rc, "prod_mdrun")
          /\ out' = out \o FailureLog(rc)
    /\ UNCHANGED << fs, mode, requested, steps, ed, i, prev_template, new_lines, eq_i,
                    prev_gro, lookups, writes, passes, earlyAt, edits >>

\* run_production: gmx mdrun, then "ALL SIMULATIONS COMPLETED SUCCESSFULLY."
ProdMdrun ==
    /\ pc = "prod_mdrun"
    /\ \E rc \in ReturnCodes :
          /\ calls' = Append(calls, Mdrun("production", "-nb gpu -pme gpu", rc))
          /\ pc' = RunCmd(rc, "complete")
          /\ out' = out \o FailureLog(rc)
                        \o (IF rc = 0 THEN << [msg |-> "ALL SIMULATIONS COMPLETED SUCCESSFULLY.", n |-> 0] >>
                            ELSE << >>)
    /\ UNCHANGED << fs, mode, requested, steps, ed, i, prev_template, new_lines, eq_i,
                    prev_gro, lookups, writes, passes, earlyAt, edits >>

Next ==
    \/ AskEditMin
    \/ EditRewrite
    \/ EditNotFound
    \/ EditDone
    \/ AskMulti
    \/ AskCount
    \/ AskSameForAll
    \/ DeriveStage
    \/ AskSameForRest
    \/ AskEditEq
    \/ AskEditProd
    \/ StartPipeline
    \/ MinGrompp
    \/ MinMdrun
    \/ EqGrompp
    \/ EqMdrun
    \/ ProdGrompp
    \/ ProdMdrun

Spec == Init /\ [][Next]_vars


\* ------------------------------------------------------------------------
\* Properties
\* ------------------------------------------------------------------------

CallIdx == 1..Len(calls)

\* the stage names of a run with n equilibration stages, in pipeline order
StageCount(n) == (IF n > 0 THEN n ELSE 0) + 2

StageName(n, s) ==
    IF s = 1 THEN "minimization"
    ELSE IF s = StageCount(n) THEN "production"
    ELSE "equilibration" \o IntStr(s - 1)

\* the restraint directive of each stage, as the schedule (400, 40) ... (50, 5) fixes it
ExpectedDirective ==
    << "define                  = -DPOSRES -DPOSRES_FC_BB=400 -DPOSRES_FC_SC=40\n",
       "define                  = -DPOSRES -DPOSRES_FC_BB=300 -DPOSRES_FC_SC=30\n",
       "define                  = -DPOSRES -DPOSRES_FC_BB=200 -DPOSRES_FC_SC=20\n",
       "define                  = -DPOSRES -DPOSRES_FC_BB=100 -DPOSRES_FC_SC=10\n",
       "define                  = -DPOSRES -DPOSRES_FC_BB=50 -DPOSRES_FC_SC=5\n" >>

\* a line whose stripped content starts with the restraint-directive key
IsRestraintDirective(line) == StartsWith(Strip(line), "define")

\* derived is base line by line, but for the restraint directive lines, which are stage n's
DerivedFrom(derived, base, n) ==
    /\ Len(derived) = Len(base)
    /\ \A k \in 1..Len(base) :
          IF IsRestraintDirective(base[k]) THEN derived[k] = ExpectedDirective[n]
          ELSE derived[k] = base[k]

\* C1: an engine invocation that returned a non-zero status is the last invocation of
\* the run and leaves the pipeline in Failed: nothing is invoked after it (no later
\* stage, no retry) and Complete is not reached.
C1_FailureIsTerminal ==
    \A k \in CallIdx : calls[k].rc # 0 => (k = Len(calls) /\ pc = "failed")

\* C1 witness: the pipeline failed at the run invocation of equilibration stage 2
C1_Witness ==
    /\ pc = "failed"
    /\ Len(calls) = 6
    /\ calls[6].o = "equilibration2"
    /\ calls[6].rc # 0

\* C2: the invocations issued are, in order, grompp then mdrun of Minimization,
\* Equilibration(1..N), Production, each once, and Complete is reached only with all of
\* them issued and the production run successful.
C2_StageOrder ==
    /\ Len(calls) <= 2 * StageCount(steps)
    /\ \A k \in CallIdx :
          LET s == (k + 1) \div 2
          IN IF k % 2 = 1
             THEN calls[k].tool = "grompp" /\ calls[k].o = StageName(steps, s) \o ".tpr"
             ELSE calls[k].tool = "mdrun" /\ calls[k].o = StageName(steps, s)
    /\ pc = "complete" =>
          /\ Len(calls) = 2 * StageCount(steps)
          /\ \A k \in CallIdx : calls[k].rc = 0
          /\ calls[Len(calls)].tool = "mdrun" /\ calls[Len(calls)].o = "production"

\* C2 witness: a run of three equilibration stages completed
C2_Witness == pc = "complete" /\ steps = 3 /\ Len(calls) = 10

\* C3: each preparation invocation after minimization's takes as structural input the
\* output of the run invocation issued just before it, which succeeded: minimization.gro
\* for Equilibration(1), equilibration<n-1>.gro for Equilibration(n), and
\* equilibration<N>.gro for Production.
C3_InputChain ==
    \A k \in CallIdx :
       calls[k].tool = "grompp" =>
          /\ calls[k].o = "minimization.tpr" => calls[k].c = "step3_input.gro"
          /\ calls[k].o # "minimization.tpr" =>
                /\ k > 1
                /\ calls[k - 1].tool = "mdrun"
                /\ calls[k - 1].rc = 0
                /\ calls[k].c = calls[k - 1].o \o ".gro"
          /\ calls[k].o = "equilibration1.tpr" => calls[k].c = "minimization.gro"
          /\ \A n \in 1..(MAX_EQ_STEPS - 1) :
                calls[k].o = "equilibration" \o IntStr(n + 1) \o ".tpr" =>
                    calls[k].c = "equilibration" \o IntStr(n) \o ".gro"
          /\ (calls[k].o = "production.tpr" /\ steps >= 1) =>
                calls[k].c = "equilibration" \o IntStr(steps) \o ".gro"

\* C3 witness: production prepared from the output of the second of two equilibration stages
C3_Witness ==
    /\ steps = 2
    /\ \E k \in CallIdx : calls[k].o = "production.tpr" /\ calls[k].c = "equilibration2.gro"
    /\ \E k \in CallIdx : calls[k].o = "equilibration2.tpr" /\ calls[k].c = "equilibration1.gro"

\* C4: the preparation invocation of minimization and of every equilibration stage passes
\* step3_input.gro as restraint reference, whatever its structural input, and the
\* production preparation passes no restraint reference.
C4_RestraintReference ==
    \A k \in CallIdx :
       calls[k].tool = "grompp" =>
          IF calls[k].o = "production.tpr" THEN calls[k].r = NoArg
          ELSE calls[k].r = "step3_input.gro"

\* C4 witness: an equilibration stage prepared from an evolving structure, and production prepared
C4_Witness ==
    /\ \E k \in CallIdx : calls[k].o = "equilibration3.tpr" /\ calls[k].c = "equilibration2.gro"
    /\ \E k \in CallIdx : calls[k].o = "production.tpr"


WriteIdx == 1..Len(writes)

\* the restraint directive lines of a written file are those of its stage
DirectiveOfStage(w) ==
    /\ w.stage \in 1..Len(ExpectedDirective)
    /\ \A k \in 1..Len(w.lines) :
          IsRestraintDirective(w.lines[k]) => w.lines[k] = ExpectedDirective[w.stage]

\* C5 as stated: in every edit mode, the single-stage one included, each restraint
\* directive the scheduler writes into stage i's file is the one of schedule entry i-1.
C5_Original == \A k \in WriteIdx : DirectiveOfStage(writes[k])

\* C5 amended: each restraint directive that generation or propagation (uniform, per-stage,
\* remaining stages) writes into stage i's file is the one of schedule entry i-1; the
\* single-stage mode writes stage 1's file as a verbatim copy of the template.
C5_ScheduledDirective ==
    \A k \in WriteIdx :
       IF writes[k].by = "copy"
       THEN mode = "single" /\ writes[k].stage = 1 /\ writes[k].lines = fs[EqMdp]
       ELSE DirectiveOfStage(writes[k])

\* C5 witness: a per-stage run with early exit at stage 3 of 5 has written directives by
\* generation, by derivation and by propagation to the remaining stages
C5_Witness ==
    /\ earlyAt = 3
    /\ steps = 5
    /\ \E a, b, c \in WriteIdx :
          /\ writes[a].by = "generate" /\ writes[a].stage = 5
          /\ writes[b].by = "perstage" /\ writes[b].stage = 3
          /\ writes[c].by = "remaining" /\ writes[c].stage = 4
          /\ \A w \in {a, b, c} : \E k \in 1..Len(writes[w].lines) :
                IsRestraintDirective(writes[w].lines[k])

\* C6: in uniform mode every stage 2..N file is stage 1's edited file line by line, but
\* for the restraint directive lines, which carry the stage's own schedule values; these
\* differ between any two stages.
C6_UniformPropagation ==
    mode = "uniform" =>
       /\ \A n \in 2..steps : DerivedFrom(fs[StageFile(n)], fs[StageFile(1)], n)
       /\ \A n, o \in 1..steps : n # o => ExpectedDirective[n] # ExpectedDirective[o]

\* C6 witness: five uniform stages whose stage 1 holds an edited non-restraint field
\* and a restraint directive
C6_Witness ==
    /\ mode = "uniform"
    /\ steps = 5
    /\ \E k \in 1..Len(fs[StageFile(1)]) : fs[StageFile(1)][k] = NewLine("dt", "10")
    /\ \E k \in 1..Len(fs[StageFile(1)]) : IsRestraintDirective(fs[StageFile(1)][k])
    /\ fs[StageFile(5)] # fs[StageFile(4)]

\* C7: once "use these settings for remaining steps" is chosen at stage i, every stage
\* j > i has stage i's file but for its own restraint directive, and the per-stage loop
\* is over: no edit pass was or is run for a stage after i.
C7_EarlyExit ==
    earlyAt # 0 =>
       /\ earlyAt \in 2..steps
       /\ \A j \in (earlyAt + 1)..steps :
             DerivedFrom(fs[StageFile(j)], fs[StageFile(earlyAt)], j)
       /\ \A p \in passes : p <= earlyAt
       /\ pc \notin {"derive", "ask_same_rest", "ask_same_all"}
       /\ (pc = "editing" => ed.file = ProdMdp)

\* C7 witness: early exit at stage 3 of 5 after a field was edited in the pass of stage 3
C7_Witness ==
    /\ earlyAt = 3
    /\ steps = 5
    /\ \E k \in 1..Len(fs[StageFile(3)]) : fs[StageFile(3)][k] = NewLine("dt", "10")
    /\ \E k \in 1..Len(fs[StageFile(1)]) : fs[StageFile(1)][k] # NewLine("dt", "10")
                                               /\ KeyOf(fs[StageFile(1)][k]) = "dt"
    /\ \E k \in 1..Len(fs[StageFile(3)]) : IsRestraintDirective(fs[StageFile(3)][k])

\* the entries of the write history made by prepare_equilibration_files
Generated == SelectSeq(writes, LAMBDA w : w.by = "generate")

\* C8: generation for a stage count N in 1..5 persists exactly the N files of stages
\* 1..N, each the template line by line but for the restraint directive lines, which are
\* "-DPOSRES -DPOSRES_FC_BB=<bb> -DPOSRES_FC_SC=<sc>" of the stage's schedule entry.
C8_Generation ==
    (mode \in {"multi", "uniform", "perstage"} /\ EqMdp \in DOMAIN fs /\ steps \in 1..MAX_EQ_STEPS) =>
       /\ Len(Generated) = steps
       /\ \A n \in 1..steps :
             /\ Generated[n].stage = n
             /\ DerivedFrom(Generated[n].lines, fs[EqMdp], n)
       /\ (pc = "editing" /\ ed.ret = "ask_same_all") =>
             \A n \in 1..steps : fs[StageFile(n)] = Generated[n].lines

\* C8 witness: the template title/define/dt generated for three stages
C8_Witness ==
    /\ pc = "editing" /\ ed.ret = "ask_same_all"
    /\ steps = 3
    /\ fs[EqMdp] = << "title = test\n", "define = -DPOSRES\n", "dt = 0.002\n" >>
    /\ fs[StageFile(1)] = << "title = test\n", ExpectedDirective[1], "dt = 0.002\n" >>
    /\ fs[StageFile(2)] = << "title = test\n", ExpectedDirective[2], "dt = 0.002\n" >>
    /\ fs[StageFile(3)] = << "title = test\n", ExpectedDirective[3], "dt = 0.002\n" >>
    /\ StageFile(4) \notin DOMAIN fs

\* C9: the stage count is at most 5 once set, and the schedule is only ever read at an
\* index of its table 0..4; no run ends in an IndexError of the schedule.
C9_ScheduleBound ==
    /\ steps <= MAX_EQ_STEPS
    /\ lookups \subseteq 0..(Len(POSRES_SCHEDULE) - 1)
    /\ \A k \in WriteIdx : writes[k].stage \in 1..Len(POSRES_SCHEDULE)
    /\ (pc = "crashed" /\ mode = "multi") => EqMdp \notin DOMAIN fs \/ StageFile(1) \notin DOMAIN fs

\* C9 witness: a request of 6 stages, clamped, with the last schedule entry read
C9_Witness ==
    /\ requested = 6
    /\ steps = 5
    /\ 4 \in lookups
    /\ mode = "perstage"
    /\ 5 \in passes

\* C10: when the requested stage count was clamped, some message printed reports the
\* requested count (that the effective count differs from it).
C10_ClampSurfaced ==
    (mode # "unset" /\ requested > MAX_EQ_STEPS /\ pc # "crashed") =>
       \E k \in 1..Len(out) : out[k].n = requested

\* ------------------------------------------------------------------------
\* The edit session on its own: the run from "How many equilibration steps?" to
\* the end of the edit_mdp call on the stage-1 file, over templates that mix
\* comments, blank lines, duplicate keys, keys that are prefixes of other keys,
\* an empty key, indentation and a last line without a newline
\* ------------------------------------------------------------------------

EditFiles ==
    { << "; comment\n", "\n", "dt = 0.002\n", "nsteps = 5\n" >>,
      << "dt = 0.001\n", "; note\n", "dt = 0.002\n" >>,
      << "rvdw_switch = 1.0\n", "rvdw = 1.2\n" >>,
      << "; header\n", "= 5\n", "dt = 1\n" >>,
      << "dtx = 1\n", "dt = 2\n", "dt = 3\n" >>,
      << "  nsteps   = 10\n", "title = a = b" >> }

\* main() at line 193, after "n" to the minimization edit and "y" to multiple runs
InitEdit ==
    /\ pc = "ask_count"
    /\ \E template \in EditFiles :
          fs = [f \in {MinMdp, EqMdp, ProdMdp} |->
                    IF f = MinMdp THEN MinLines
                    ELSE IF f = EqMdp THEN template ELSE ProdLines]
    /\ mode = "unset"
    /\ requested = 0
    /\ steps = 0
    /\ ed = NoEdit
    /\ i = 0
    /\ prev_template = ""
    /\ new_lines = << >>
    /\ eq_i = 0
    /\ prev_gro = ""
    /\ calls = << >>
    /\ lookups = {}
    /\ writes = << >>
    /\ out = << >>
    /\ passes = {}
    /\ earlyAt = 0
    /\ edits = 0

\* the rewrites of the session, as many as MaxSessionEdits
EditRewriteInSession == EditRewriteUpTo(MaxSessionEdits)

NextEdit == AskCount \/ EditRewriteInSession \/ EditNotFound \/ EditDone

SpecEdit == InitEdit /\ [][NextEdit]_vars

\* ------------------------------------------------------------------------
\* Properties of the configuration phase and of the edit sessions
\* ------------------------------------------------------------------------

\* one of the three files the user named does not exist
UserFileMissing == {MinMdp, EqMdp, ProdMdp} \ DOMAIN fs # {}

\* C11: when a user-named configuration file does not exist, the run halts before the
\* first engine invocation is issued.
C11_FailFast == UserFileMissing => calls = << >>

\* control points of the pipeline phase: no prompt is pending at any of them
PipelinePcs == {"min_grompp", "min_mdrun", "eq_grompp", "eq_mdrun", "prod_grompp",
                "prod_mdrun", "complete", "failed"}

\* control points at which a prompt is shown to the user
PromptPcs == {"ask_edit_min", "ask_multi", "ask_count", "ask_same_all", "ask_same_rest",
              "ask_edit_eq", "ask_edit_prod", "editing"}

\* C12: from the step that issues the first engine invocation onwards, no step shows a
\* prompt or writes a configuration file: the file system stays as it is and control
\* stays in the pipeline, whatever edit mode was chosen.
C12_ConfigBeforePipeline ==
    [][calls' # << >> => /\ fs' = fs
                         /\ pc \notin PromptPcs
                         /\ pc' \in PipelinePcs \ {"min_grompp"}]_vars

C12_Witness ==
    /\ pc = "complete"
    /\ mode = "perstage"
    /\ edits = 1
    /\ Len(calls) = 2 * steps + 4

\* the lines of a sequence whose stripped content starts with key
HitsOf(lines, key) == {n \in 1..Len(lines) : StartsWith(Strip(lines[n]), key)}

\* the step is a rewrite made in the running edit session
IsRewriteStep == pc = "editing" /\ pc' = "editing" /\ ed'.n = ed.n + 1

\* C13: a rewrite of a key of the loaded file to a value changes the line sequence at
\* one position, the first line whose stripped content starts with the key, which
\* becomes the formatted key and value; every other line, and the number and order of
\* the lines, stay as they were.
C13_TargetedRewrite ==
    [][IsRewriteStep =>
          LET hits == HitsOf(ed.lines, ed'.key)
          IN /\ ed'.key \in DOMAIN ed.params
             /\ hits # {}
             /\ Len(ed'.lines) = Len(ed.lines)
             /\ \A n \in 1..Len(ed.lines) :
                   IF n \in hits /\ \A m \in hits : n <= m
                   THEN ed'.lines[n] = NewLine(ed'.key, ed'.val)
                   ELSE ed'.lines[n] = ed.lines[n]]_vars

\* the step is the end of the running edit session: write_mdp and the return
IsSaveStep == pc = "editing" /\ pc' # "editing"

\* C14: a file that is loaded and saved with no rewrite in between keeps its line
\* sequence: the lines held by a session without rewrite are the lines of the file, and
\* the save that ends such a session leaves the file, and every other file, as it was.
C14_RoundTrip ==
    [][/\ (pc' = "editing" /\ ed'.n = 0) => ed'.lines = fs'[ed'.file]
       /\ (IsSaveStep /\ ed.n = 0) => (ed.file \in DOMAIN fs /\ fs' = fs)]_vars

\* the edit session on a file with a duplicate key and a comment ended without a rewrite
C14_Witness ==
    /\ pc = "ask_same_all"
    /\ edits = 0
    /\ fs[StageFile(1)] = << "dt = 0.001\n", "; note\n", "dt = 0.002\n" >>
    /\ fs[StageFile(1)] = fs[EqMdp]

\* the step is the refusal of a key that is not in the key set of the loaded file
IsMissStep == pc = "editing" /\ ~ed.missed /\ ed'.missed

\* C15: a key that is not in the key set of the loaded file is not an error: the session
\* stays at its prompt, neither the held lines nor any file change on that input, and a
\* session leaves its prompt only by the save that the termination request makes.
C15_UnknownKeyReprompts ==
    [][/\ IsMissStep => /\ pc' = "editing"
                        /\ ed'.lines = ed.lines
                        /\ ed'.params = ed.params
                        /\ ed'.file = ed.file
                        /\ fs' = fs
       /\ IsSaveStep => /\ pc' = ed.ret
                        /\ fs' = Put(fs, ed.file, ed.lines)]_vars

\* an unknown key was refused and the session is at its prompt again, the file untouched
C15_Witness ==
    /\ pc = "editing"
    /\ ed.missed
    /\ ed.n = 0
    /\ ed.lines = fs[ed.file]
    /\ "bogus" \notin DOMAIN ed.params

\* C16: the schedule has exactly five entries, and from the second stage on the backbone
\* force and the sidechain force of a stage are both strictly smaller than those of the
\* stage before it; the entries a run reads are among these five.
C16_RestraintMonotone ==
    /\ Len(POSRES_SCHEDULE) = 5
    /\ Len(POSRES_SCHEDULE) = MAX_EQ_STEPS
    /\ lookups \subseteq 0..4
    /\ \A n \in 2..5 :
          /\ ScheduleAt(n - 1)[1] < ScheduleAt(n - 2)[1]
          /\ ScheduleAt(n - 1)[2] < ScheduleAt(n - 2)[2]

\* a five-stage run that read every entry of the schedule and ran to the end
C16_Witness ==
    /\ pc = "complete"
    /\ steps = 5
    /\ lookups = 0..4

\* C17: the save of the edit pass announced for stage i (i >= 2) leaves the file of
\* every stage before i as it was; the lines it holds go to stage i and later only.
C17_ForwardOnly ==
    [][(IsSaveStep /\ ed.ret = "derive") =>
          /\ i \in passes
          /\ \A j \in 1..(i - 1) :
                StageFile(j) \in DOMAIN fs => fs'[StageFile(j)] = fs[StageFile(j)]]_vars

\* the positions of the directive lines of a sequence whose key is key
OccurrencesOf(lines, key) ==
    {n \in 1..Len(lines) : IsParamLine(lines[n]) /\ KeyOf(lines[n]) = key}

\* C18: for a key that occurs on more than one directive line, the loaded line sequence
\* holds every occurrence, the key index holds the last one, and a rewrite of the key
\* replaces the first occurrence and leaves the later occurrences as they were.
C18_DuplicateKeys ==
    [][IsRewriteStep =>
          LET occ == OccurrencesOf(ed.lines, ed'.key)
          IN (ed.n = 0 /\ Cardinality(occ) > 1) =>
                /\ ed.lines = fs[ed.file]
                /\ \A n \in occ :
                      IF \A m \in occ : n <= m
                      THEN ed'.lines[n] = NewLine(ed'.key, ed'.val)
                      ELSE ed'.lines[n] = ed.lines[n]
                /\ \E n \in occ : ed.params[ed'.key] = ed.lines[n] /\ \A m \in occ : m <= n]_vars

\* C19: after an edit session that rewrote one key K to V, the saved file loaded again
\* maps K to V and maps every other key of the original key set to its original line.
C19_RewriteHitsDirective ==
    [][(IsSaveStep /\ ed.n = 1) =>
          LET reload == ReadParams(fs'[ed.file])
          IN /\ ed.key \in DOMAIN reload
             /\ ValueOf(reload[ed.key]) = ed.val
             /\ \A k \in DOMAIN ed.params \ {ed.key} :
                   k \in DOMAIN reload /\ reload[k] = ed.params[k]]_vars

\* C20: the stage count the scheduler uses is within 1..5 whatever the user typed; a
\* production preparation is preceded by the run of equilibration stage 1 and does not
\* take the minimization output as its structure; and every stage file the scheduler
\* hands to the engine was written in the configuration phase of this run.
C20_AtLeastOneStage ==
    /\ calls # << >> => steps \in 1..MAX_EQ_STEPS
    /\ \A k \in CallIdx :
          calls[k].o = "production.tpr" =>
             /\ calls[k].c # "minimization.gro"
             /\ \E j \in 1..(k - 1) : calls[j].tool = "mdrun" /\ calls[j].o = EqPrefix(1)
    /\ \A k \in CallIdx, n \in 1..MAX_EQ_STEPS :
          (calls[k].tool = "grompp" /\ calls[k].f = StageFile(n)) =>
             \E w \in WriteIdx : writes[w].stage = n

====
